---- MODULE Spec2Model ----
(***************************************************************************)
(* Model of sktime/transformations/compose/_column.py:                     *)
(*   ColumnEnsembleTransformer  (specification Spec)                       *)
(*   ColumnwiseTransformer      (specification SpecCW)                     *)
(*                                                                         *)
(* Encoding of Python values.  A column label or selector atom is a TLA+   *)
(* string: the Python strings "a", "b", "c" are themselves, the Python     *)
(* integer 1 is written "#1" (IsStr and IsInt tell them apart).            *)
(* A table (pd.DataFrame) of the ensemble is the sequence of its distinct  *)
(* column labels; its cell values play no part in fitting the ensemble.    *)
(* A table of the columnwise transformer is a sequence of [col, val]       *)
(* records, one per column in column order: val stands for the column's    *)
(* series.  A Python dict is the sequence of its [key, child] entries in   *)
(* insertion order.  Child estimators raise nothing of their own.          *)
(***************************************************************************)
EXTENDS Integers, Sequences, FiniteSets, TLC

VARIABLES
    ce_transformers,   \* self.transformers: [single, est, list]
    ce_remainder,      \* self.remainder: "None", "drop", "passthrough" or "R"
    ce_transformers_,  \* self.transformers_: sequence of fitted triples
    ce_Xcolumns,       \* self._Xcolumns
    ce_outcome,        \* "new", or how the last _fit call ended
    ce_feature_names_out, \* self.feature_names_out
    ce_op,             \* "transform" while the caller holds its result, or "idle"
    ce_arg,            \* the table that transform call was given
    ce_t_outcome,      \* "ok" or the error that transform call raised
    ce_out             \* the column labels of the table it returned

VARIABLES
    cw_columns,           \* self.columns: [kind, elems], kind "None", "list", "tuple"
    cw_columns_,          \* self.columns_
    cw_has_columns_,      \* whether the attribute columns_ exists
    cw_transformers_,     \* self.transformers_: dict of column -> fitted child
    cw_has_transformers_, \* whether the attribute transformers_ exists
    cw_op,                \* the call whose result the caller holds, or "idle"
    cw_arg,               \* the table that call was given
    cw_X,                 \* the caller's table object after the call
    cw_y,                 \* the y that call was given
    cw_update_params,     \* the update_params that call was given
    cw_outcome,           \* "ok" or the error the call raised
    cw_missing,           \* the columns a "Missing columns" error names
    cw_out,               \* the table the call returned
    cw_calls              \* the calls made on child transformers, in order

VARIABLE
    cw_refitted   \* history: a fit call has succeeded on a columnwise
                  \* transformer that an earlier fit call had already fitted

ce_call_vars == <<ce_op, ce_arg, ce_t_outcome, ce_out>>

ce_vars == <<ce_transformers, ce_remainder, ce_transformers_, ce_Xcolumns,
             ce_outcome, ce_feature_names_out, ce_call_vars>>

cw_fitted_vars == <<cw_columns_, cw_has_columns_, cw_transformers_,
                    cw_has_transformers_>>

cw_call_vars == <<cw_op, cw_arg, cw_X, cw_y, cw_update_params, cw_outcome,
                  cw_missing, cw_out, cw_calls>>

cw_vars == <<cw_columns, cw_fitted_vars, cw_call_vars>>

vars == <<ce_vars, cw_vars, cw_refitted>>

----------------------------------------------------------------------------
(* Bounds *)

\* the widest table, in columns
MaxCols == 2
\* the most column references a configuration holds (over all its selectors)
MaxAtoms == 2

----------------------------------------------------------------------------
(* Python values *)

StrLabels == {"a", "b", "c"}
IntAtoms == {"#1"}
Atoms == StrLabels \cup IntAtoms

\* isinstance(v, str), isinstance(v, int)
IsStr(v) == v \in StrLabels
IsInt(v) == v \in IntAtoms
\* the number an integer atom stands for
IntValue(v) == IF v = "#1" THEN 1 ELSE 0

\* str(col): a string is itself, an integer its decimal digits
Str(v) == IF v = "#1" THEN "1" ELSE v

Range(s) == {s[i] : i \in 1..Len(s)}

\* the sequences of length n over S without repetition
InjSeqs(S, n) == {s \in [1..n -> S] : \A i, j \in 1..n : s[i] = s[j] => i = j}

\* the orders in which iterating a Python set may yield its elements
Orderings(S) == InjSeqs(S, Cardinality(S))

\* tables the ensemble is fitted on: distinct string labels, 1..MaxCols columns
CETables == UNION {InjSeqs(StrLabels, n) : n \in 1..MaxCols}

----------------------------------------------------------------------------
(* ColumnEnsembleTransformer: configuration *)

Names == {"t1", "t2", "remainder"}
Remainders == {"None", "drop", "passthrough", "R"}

\* isinstance(x, BaseTransformer): "T" and "R" are estimators; "<list>" is
\* a Python list standing where an estimator is expected
IsBaseTransformer(x) == x \in {"T", "R", "Id"}

\* selectors of exactly n atoms (a scalar selector x coerces as [x])
SelectorsOfLen(n) == [1..n -> Atoms]

RECURSIVE TripleLists(_)
\* the lists of (name, estimator, selector) triples holding at most
\* `budget` column references, every selector holding at least one
TripleLists(budget) ==
    {<<>>} \cup
    UNION {
        UNION {
            {<<[name |-> nm, est |-> "T", index |-> sel]>> \o rest :
                nm \in Names, sel \in SelectorsOfLen(n),
                rest \in TripleLists(budget - n)}
        : n \in 1..budget}
    }

SingleSpec == [single |-> TRUE, est |-> "T", list |-> <<>>]
ListSpec(l) == [single |-> FALSE, est |-> "T", list |-> l]

CESpecs == {SingleSpec} \cup {ListSpec(l) : l \in TripleLists(MaxAtoms) \ {<<>>}}

----------------------------------------------------------------------------
(* ColumnEnsembleTransformer: _check_transformers and _fit *)

\* _ColumnEstimator._coerce_to_pd_index(obj, X): an integer that is no
\* column label is the label of the column at that position when there is
\* one; everything else is taken as a label
CoerceAtom(v, X) ==
    IF IsInt(v) /\ v \notin Range(X) /\ IntValue(v) < Len(X)
    THEN X[IntValue(v) + 1]
    ELSE v

CoerceToPdIndex(obj, X) == [i \in 1..Len(obj) |-> CoerceAtom(obj[i], X)]

RECURSIVE BroadcastLoop(_, _, _)
\* lines 231-232: for col in X.columns:
\*     transformers = [(str(col), transformers, pd.Index([col]))]
\* `cur` is the current value of the local `transformers`: the estimator
\* itself before the first pass, a one-element list after it
BroadcastLoop(cur, X, i) ==
    IF i > Len(X) THEN cur
    ELSE BroadcastLoop(
            <<[name |-> Str(X[i]),
               est |-> IF i = 1 THEN ce_transformers.est ELSE "<list>",
               index |-> <<X[i]>>]>>,
            X, i + 1)

\* lines 228-232
InitialTransformers(X) ==
    IF ce_transformers.single
    THEN BroadcastLoop(<<>>, X, 1)
    ELSE ce_transformers.list

\* lines 234-240
CoercedTrafo(trs, X) ==
    [i \in 1..Len(trs) |->
        [name |-> trs[i].name, est |-> trs[i].est,
         index |-> CoerceToPdIndex(trs[i].index, X)]]

\* line 246: the remainder is handled only for "passthrough" or an estimator
RemainderActive == ce_remainder = "passthrough" \/ ce_remainder = "R"

\* lines 250-255: a clone of the remainder estimator, or Id()
RemT == IF ce_remainder = "R" THEN "R" ELSE "Id"

\* RemainIdx with the union of line 259 lost: only the last index is removed
RemainIdx_LastOnly(coerced, X) ==
    Range(X) \ (IF Len(coerced) = 0 THEN {}
                ELSE Range(coerced[Len(coerced)].index))

\* lines 257-260: set(X.columns) minus the union of the coerced indices
RemainIdx(coerced, X) ==
    Range(X) \ UNION {Range(coerced[i].index) : i \in 1..Len(coerced)}

\* HandleRemainder appending the remainder triple only when columns remain
HandleRemainder_SkipEmpty(coerced, order) ==
    IF ~RemainderActive \/ order = <<>>
    THEN coerced
    ELSE Append(coerced, [name |-> "remainder", est |-> RemT, index |-> order])

\* lines 242-265, after the coercion; `order` is the order in which the set
\* remain_idx is iterated when it is made a pd.Index (line 261)
HandleRemainder(coerced, order) ==
    IF ~RemainderActive
    THEN coerced
    ELSE Append(coerced, [name |-> "remainder", est |-> RemT, index |-> order])

\* the values _check_transformers(X) can return, lines 227-265
CheckTransformers(X) ==
    LET coerced == CoercedTrafo(InitialTransformers(X), X)
    IN  {HandleRemainder(coerced, order) :
            order \in Orderings(RemainIdx(coerced, X))}

\* transformer.clone() needs an estimator; X.loc[:, index] needs every label
\* of index to be a column of X
TripleFits(t, X) == IsBaseTransformer(t.est) /\ Range(t.index) \subseteq Range(X)

\* lines 290-293: the fitted clone remembers what it was fitted on
FittedTriple(t) ==
    [name |-> t.name,
     est |-> [proto |-> t.est, fitted_on |-> t.index],
     index |-> t.index]

\* how many triples the loop of lines 289-293 fits before one raises
FittedCount(trs, X) ==
    LET bad == {k \in 1..Len(trs) : ~TripleFits(trs[k], X)}
    IN  IF bad = {} THEN Len(trs)
        ELSE (CHOOSE k \in bad : \A j \in bad : k <= j) - 1

\* ColumnEnsembleTransformer._fit(X, y), lines 284-295
Fit(X) ==
    \E trs \in CheckTransformers(X) :
        LET n == FittedCount(trs, X)
        IN  /\ ce_transformers_' = [i \in 1..n |-> FittedTriple(trs[i])]
            /\ ce_Xcolumns' = X
            /\ ce_outcome' = IF n = Len(trs) THEN "ok" ELSE "error"
            /\ UNCHANGED <<ce_transformers, ce_remainder, cw_vars,
                           ce_feature_names_out, ce_call_vars>>

----------------------------------------------------------------------------
(* ColumnEnsembleTransformer: _transform *)

FeatureNamesOut == {"auto", "flat", "multiindex", "original"}

\* the column labels a fitted child's transform returns for the columns it
\* is given: a series transformer keeps the labels of its input
ChildOutputLabels(est, index) == index

\* TransformBlocks going through the fitted triples last to first
TransformBlocks_Reversed(X) ==
    [i \in 1..Len(ce_transformers_) |->
        LET t == ce_transformers_[Len(ce_transformers_) + 1 - i]
        IN  [key |-> t.name, cols |-> ChildOutputLabels(t.est, t.index)]]

\* lines 314-318: one block per fitted triple, in stored order, keyed by
\* the triple's name
TransformBlocks(X) ==
    [i \in 1..Len(ce_transformers_) |->
        [key |-> ce_transformers_[i].name,
         cols |-> ChildOutputLabels(ce_transformers_[i].est,
                                    ce_transformers_[i].index)]]

RECURSIVE Concat(_, _)
\* line 320, pd.concat(Xts, axis=1, keys=keys): the two-level column index
\* (key, label) of the blocks side by side, from block i on
Concat(blocks, i) ==
    IF i > Len(blocks) THEN <<>>
    ELSE [j \in 1..Len(blocks[i].cols) |->
            [key |-> blocks[i].key, label |-> blocks[i].cols[j]]]
         \o Concat(blocks, i + 1)

IsUnique(s) == \A i, j \in 1..Len(s) : s[i] = s[j] => i = j

\* one label in each form: the child's label alone, the key joined to it
\* by "__", the pair of key and label
Original(c) == <<c.label>>
Flat(c) == <<c.key, "__", c.label>>
MultiIndex(c) == <<c.key, c.label>>

\* sktime.utils.multiindex.rename_multiindex(Xt.columns, feature_names_out):
\* the labels in the form asked for; "auto" is "original" when that is
\* unique over the whole index and "flat" otherwise; "original" raises
\* when not unique (written <<"ValueError">>)
RenameMultiindex(midx, feature_names_out) ==
    LET original == [i \in 1..Len(midx) |-> Original(midx[i])]
        flat == [i \in 1..Len(midx) |-> Flat(midx[i])]
    IN  CASE feature_names_out = "multiindex" ->
                [outcome |-> "ok",
                 labels |-> [i \in 1..Len(midx) |-> MultiIndex(midx[i])]]
          [] feature_names_out = "flat" -> [outcome |-> "ok", labels |-> flat]
          [] feature_names_out = "original" ->
                IF IsUnique(original)
                THEN [outcome |-> "ok", labels |-> original]
                ELSE [outcome |-> "ValueError", labels |-> <<>>]
          [] OTHER ->
                [outcome |-> "ok",
                 labels |-> IF IsUnique(original) THEN original ELSE flat]

\* X.loc[:, index] raises KeyError when a label of index is no column of X
SlicesPresent(X) ==
    \A i \in 1..Len(ce_transformers_) :
        Range(ce_transformers_[i].index) \subseteq Range(X)

\* ColumnEnsembleTransformer._transform(X, y), lines 314-329
ColumnEnsembleTransform(X) ==
    IF ~SlicesPresent(X)
    THEN [outcome |-> "KeyError", labels |-> <<>>]
    ELSE RenameMultiindex(Concat(TransformBlocks(X), 1), ce_feature_names_out)

\* transform on a fitted ensemble; the caller then holds the result
Transform(X) ==
    /\ ce_op = "idle"
    /\ ce_outcome = "ok"
    /\ LET r == ColumnEnsembleTransform(X)
       IN  /\ ce_t_outcome' = r.outcome
           /\ ce_out' = r.labels
    /\ ce_op' = "transform"
    /\ ce_arg' = X
    /\ UNCHANGED <<ce_transformers, ce_remainder, ce_transformers_,
                   ce_Xcolumns, ce_outcome, ce_feature_names_out, cw_vars,
                   cw_refitted>>

\* the caller lets go of the last transform's result and may call again
Return ==
    /\ ce_op # "idle"
    /\ ce_op' = "idle"
    /\ ce_arg' = <<>>
    /\ ce_t_outcome' = "ok"
    /\ ce_out' = <<>>
    /\ UNCHANGED <<ce_transformers, ce_remainder, ce_transformers_,
                   ce_Xcolumns, ce_outcome, ce_feature_names_out, cw_vars,
                   cw_refitted>>

----------------------------------------------------------------------------

(* ColumnwiseTransformer: tables, configuration, child transformers *)

CWLabels == {"a", "b", "#1"}
Values == {0, 1}
YVals == {"None", "y"}

CWTables ==
    UNION {{[i \in 1..n |-> [col |-> cs[i], val |-> vs[i]]] :
                cs \in InjSeqs(CWLabels, n), vs \in [1..n -> Values]}
           : n \in 1..MaxCols}

\* X.columns, set(X.columns), X[colname]
Columns(X) == [i \in 1..Len(X) |-> X[i].col]
ColumnSet(X) == {X[i].col : i \in 1..Len(X)}
GetCol(X, c) == X[CHOOSE i \in 1..Len(X) : X[i].col = c].val
\* X[colname] = v for a column X has: replaced in place
SetCol(X, c, v) ==
    [i \in 1..Len(X) |-> IF X[i].col = c THEN [col |-> c, val |-> v] ELSE X[i]]

\* dict operations: d[k], k in d, d[k] = v (a new key goes last)
Keys(d) == {d[i].key : i \in 1..Len(d)}
DictGet(d, k) == d[CHOOSE i \in 1..Len(d) : d[i].key = k].child
DictSet(d, k, v) ==
    IF k \in Keys(d)
    THEN [i \in 1..Len(d) |->
            IF d[i].key = k THEN [key |-> k, child |-> v] ELSE d[i]]
    ELSE Append(d, [key |-> k, child |-> v])

SeqsUpTo(S, n) == UNION {[1..k -> S] : k \in 0..n}

CWColumnSpecs ==
    {[kind |-> "None", elems |-> <<>>]} \cup
    {[kind |-> k, elems |-> e] :
        k \in {"list", "tuple"}, e \in SeqsUpTo(CWLabels, MaxAtoms)}

\* the child transformer: fit keeps the series it saw as its parameter,
\* transform shifts a series up by the parameter and one, inverse_transform
\* shifts it back down, update folds the new series into the parameter
ChildFit(data, y) == [param |-> data]
ChildTransform(child, data, y) == data + child.param + 1
ChildInverseTransform(child, data, y) == data - child.param - 1
ChildUpdate(child, data, y) ==
    [param |-> (child.param + data) % Cardinality(Values)]

NoTable == <<>>
NoDict == <<>>

----------------------------------------------------------------------------
(* ColumnwiseTransformer: _check_columns, _fit, _transform,                *)
(* _inverse_transform, update                                              *)

\* CheckColumns reporting one missing column only
CheckColumns_OneMissing(z, selected_columns) ==
    LET difference == Range(selected_columns) \ ColumnSet(z)
    IN  IF difference = {} THEN {}
        ELSE {CHOOSE c \in difference : TRUE}

\* _check_columns, lines 586-592: the difference it computes; it raises
\* ValueError("Missing columns" + str(difference) + "in Z.") when non-empty
CheckColumns(z, selected_columns) ==
    Range(selected_columns) \ ColumnSet(z)

\* lines 450-454: whether the check of self.columns raises:
\* (not isinstance(self.columns, list)) and all(isinstance(s, str) ...)
ColumnsCheckRaises ==
    /\ cw_columns.kind # "None"
    /\ (~(cw_columns.kind = "list")
        /\ \A i \in 1..Len(cw_columns.elems) : IsStr(cw_columns.elems[i]))

RECURSIVE FitLoop(_, _, _, _, _)
\* lines 467-470; returns the dict and the child calls made
FitLoop(cols, X, y, i, acc) ==
    IF i > Len(cols) THEN acc
    ELSE LET colname == cols[i]
             transformer == ChildFit(GetCol(X, colname), y)
         IN  FitLoop(cols, X, y, i + 1,
                [dict |-> DictSet(acc.dict, colname, transformer),
                 calls |-> acc.calls \o
                    <<[method |-> "clone", col |-> colname, data |-> 0,
                       y |-> "None"],
                      [method |-> "fit", col |-> colname,
                       data |-> GetCol(X, colname), y |-> y]>>])

\* ColumnwiseFit without the reset of line 466: the loop writes into the
\* dict the instance already has
ColumnwiseFit_KeepDict(X, y) ==
    LET columns_ == IF cw_columns.kind = "None" THEN Columns(X)
                    ELSE cw_columns.elems
        difference == CheckColumns(X, columns_)
        fitted == FitLoop(columns_, X, y, 1,
                          [dict |-> cw_transformers_, calls |-> <<>>])
    IN  IF ColumnsCheckRaises
        THEN [outcome |-> "config_error", missing |-> {},
              columns_ |-> cw_columns_, has_columns_ |-> cw_has_columns_,
              transformers_ |-> cw_transformers_,
              has_transformers_ |-> cw_has_transformers_, calls |-> <<>>]
        ELSE IF difference # {}
        THEN [outcome |-> "missing_columns", missing |-> difference,
              columns_ |-> columns_, has_columns_ |-> TRUE,
              transformers_ |-> cw_transformers_,
              has_transformers_ |-> cw_has_transformers_, calls |-> <<>>]
        ELSE [outcome |-> "ok", missing |-> {},
              columns_ |-> columns_, has_columns_ |-> TRUE,
              transformers_ |-> fitted.dict, has_transformers_ |-> TRUE,
              calls |-> fitted.calls]

\* ColumnwiseFit with the reset of line 466 moved before the column check of
\* line 463
ColumnwiseFit_ResetBeforeCheck(X, y) ==
    LET columns_ == IF cw_columns.kind = "None" THEN Columns(X)
                    ELSE cw_columns.elems
        difference == CheckColumns(X, columns_)
        fitted == FitLoop(columns_, X, y, 1, [dict |-> NoDict, calls |-> <<>>])
    IN  IF ColumnsCheckRaises
        THEN [outcome |-> "config_error", missing |-> {},
              columns_ |-> cw_columns_, has_columns_ |-> cw_has_columns_,
              transformers_ |-> cw_transformers_,
              has_transformers_ |-> cw_has_transformers_, calls |-> <<>>]
        ELSE IF difference # {}
        THEN [outcome |-> "missing_columns", missing |-> difference,
              columns_ |-> columns_, has_columns_ |-> TRUE,
              transformers_ |-> NoDict,
              has_transformers_ |-> TRUE, calls |-> <<>>]
        ELSE [outcome |-> "ok", missing |-> {},
              columns_ |-> columns_, has_columns_ |-> TRUE,
              transformers_ |-> fitted.dict, has_transformers_ |-> TRUE,
              calls |-> fitted.calls]

\* ColumnwiseTransformer._fit(X, y), lines 449-471
ColumnwiseFit(X, y) ==
    LET columns_ == IF cw_columns.kind = "None" THEN Columns(X)
                    ELSE cw_columns.elems
        difference == CheckColumns(X, columns_)
        fitted == FitLoop(columns_, X, y, 1, [dict |-> NoDict, calls |-> <<>>])
    IN  IF ColumnsCheckRaises
        THEN [outcome |-> "config_error", missing |-> {},
              columns_ |-> cw_columns_, has_columns_ |-> cw_has_columns_,
              transformers_ |-> cw_transformers_,
              has_transformers_ |-> cw_has_transformers_, calls |-> <<>>]
        ELSE IF difference # {}
        THEN [outcome |-> "missing_columns", missing |-> difference,
              columns_ |-> columns_, has_columns_ |-> TRUE,
              transformers_ |-> cw_transformers_,
              has_transformers_ |-> cw_has_transformers_, calls |-> <<>>]
        ELSE [outcome |-> "ok", missing |-> {},
              columns_ |-> columns_, has_columns_ |-> TRUE,
              transformers_ |-> fitted.dict, has_transformers_ |-> TRUE,
              calls |-> fitted.calls]

\* self.transformers_[colname] and X[colname] raise KeyError without the key
LoopKeysPresent(X) ==
    \A i \in 1..Len(cw_columns_) :
        cw_columns_[i] \in Keys(cw_transformers_) \cap ColumnSet(X)

RECURSIVE TransformLoop(_, _, _, _)
\* lines 498-499; acc holds the table so far and the child calls made
TransformLoop(acc, y, i, inverse) ==
    IF i > Len(cw_columns_) THEN acc
    ELSE LET colname == cw_columns_[i]
             child == DictGet(cw_transformers_, colname)
             data == GetCol(acc.X, colname)
             res == IF inverse THEN ChildInverseTransform(child, data, y)
                    ELSE ChildTransform(child, data, y)
         IN  TransformLoop(
                [X |-> SetCol(acc.X, colname, res),
                 calls |-> Append(acc.calls,
                    [method |-> IF inverse THEN "inverse_transform"
                                ELSE "transform",
                     col |-> colname, data |-> data, y |-> y])],
                y, i + 1, inverse)

\* the body shared by _transform (lines 493-500) and _inverse_transform
\* (lines 521-531): copy, check, loop; X_after is the caller's table
TransformBody(X, y, inverse) ==
    LET copy == X
        difference == CheckColumns(copy, cw_columns_)
        done == TransformLoop([X |-> copy, calls |-> <<>>], y, 1, inverse)
    IN  IF difference # {}
        THEN [outcome |-> "missing_columns", missing |-> difference,
              out |-> NoTable, X_after |-> X, calls |-> <<>>]
        ELSE IF ~LoopKeysPresent(copy)
        THEN [outcome |-> "KeyError", missing |-> {},
              out |-> NoTable, X_after |-> X, calls |-> <<>>]
        ELSE [outcome |-> "ok", missing |-> {},
              out |-> done.X, X_after |-> X, calls |-> done.calls]

\* _transform working on the caller's table instead of a copy
ColumnwiseTransform_NoCopy(X, y) ==
    LET r == TransformBody(X, y, FALSE)
    IN  IF r.outcome = "ok" THEN [r EXCEPT !.X_after = r.out] ELSE r

\* ColumnwiseTransformer._transform(X, y), lines 493-500
ColumnwiseTransform(X, y) == TransformBody(X, y, FALSE)

\* _inverse_transform applying the forward transform
ColumnwiseInverseTransform_Forward(X, y) == TransformBody(X, y, FALSE)

\* ColumnwiseTransformer._inverse_transform(X, y), lines 521-531
ColumnwiseInverseTransform(X, y) == TransformBody(X, y, TRUE)

RECURSIVE UpdateLoop(_, _, _)
\* lines 558-559: self.transformers_[colname].update(z[colname], X): the
\* child's second parameter, y, receives the table X (written "X"), and
\* update_params is left at the child's default
UpdateLoop(acc, z, i) ==
    IF i > Len(cw_columns_) THEN acc
    ELSE LET colname == cw_columns_[i]
             child == DictGet(acc.dict, colname)
             data == GetCol(z, colname)
         IN  UpdateLoop(
                [dict |-> DictSet(acc.dict, colname,
                                  ChildUpdate(child, data, "X")),
                 calls |-> Append(acc.calls,
                    [method |-> "update", col |-> colname, data |-> data,
                     y |-> "X"])],
                z, i + 1)

\* ColumnwiseTransformer.update(X, y, update_params), lines 550-560
ColumnwiseUpdate(X, y, update_params) ==
    LET z == X
        difference == CheckColumns(z, cw_columns_)
        done == UpdateLoop([dict |-> cw_transformers_, calls |-> <<>>], z, 1)
    IN  IF difference # {}
        THEN [outcome |-> "missing_columns", missing |-> difference,
              transformers_ |-> cw_transformers_, calls |-> <<>>]
        ELSE IF ~LoopKeysPresent(z)
        THEN [outcome |-> "KeyError", missing |-> {},
              transformers_ |-> cw_transformers_, calls |-> <<>>]
        ELSE [outcome |-> "ok", missing |-> {},
              transformers_ |-> done.dict, calls |-> done.calls]

\* the instance is fitted: columns_ and transformers_ exist
CWIsFitted == cw_has_columns_ /\ cw_has_transformers_

CWFit(X, y) ==
    /\ cw_op = "idle"
    /\ LET r == ColumnwiseFit(X, y)
       IN  /\ cw_columns_' = r.columns_
           /\ cw_has_columns_' = r.has_columns_
           /\ cw_transformers_' = r.transformers_
           /\ cw_has_transformers_' = r.has_transformers_
           /\ cw_outcome' = r.outcome
           /\ cw_missing' = r.missing
           /\ cw_calls' = r.calls
    /\ cw_op' = "fit"
    /\ cw_arg' = X
    /\ cw_X' = X
    /\ cw_y' = y
    /\ cw_out' = NoTable
    /\ UNCHANGED <<cw_columns, cw_update_params, ce_vars>>

CWTransform(X, y) ==
    /\ cw_op = "idle"
    /\ CWIsFitted
    /\ LET r == ColumnwiseTransform(X, y)
       IN  /\ cw_outcome' = r.outcome
           /\ cw_missing' = r.missing
           /\ cw_out' = r.out
           /\ cw_X' = r.X_after
           /\ cw_calls' = r.calls
    /\ cw_op' = "transform"
    /\ cw_arg' = X
    /\ cw_y' = y
    /\ UNCHANGED <<cw_columns, cw_fitted_vars, cw_update_params, ce_vars,
                   cw_refitted>>

CWInverseTransform(X, y) ==
    /\ cw_op = "idle"
    /\ CWIsFitted
    /\ LET r == ColumnwiseInverseTransform(X, y)
       IN  /\ cw_outcome' = r.outcome
           /\ cw_missing' = r.missing
           /\ cw_out' = r.out
           /\ cw_X' = r.X_after
           /\ cw_calls' = r.calls
    /\ cw_op' = "inverse_transform"
    /\ cw_arg' = X
    /\ cw_y' = y
    /\ UNCHANGED <<cw_columns, cw_fitted_vars, cw_update_params, ce_vars,
                   cw_refitted>>

CWUpdate(X, y, update_params) ==
    /\ cw_op = "idle"
    /\ CWIsFitted
    /\ LET r == ColumnwiseUpdate(X, y, update_params)
       IN  /\ cw_transformers_' = r.transformers_
           /\ cw_outcome' = r.outcome
           /\ cw_missing' = r.missing
           /\ cw_calls' = r.calls
    /\ cw_op' = "update"
    /\ cw_arg' = X
    /\ cw_X' = X
    /\ cw_y' = y
    /\ cw_update_params' = update_params
    /\ cw_out' = NoTable
    /\ UNCHANGED <<cw_columns, cw_columns_, cw_has_columns_,
                   cw_has_transformers_, ce_vars, cw_refitted>>

\* the caller lets go of the last call's result and may call again
CWReturn ==
    /\ cw_op # "idle"
    /\ cw_op' = "idle"
    /\ cw_arg' = NoTable
    /\ cw_X' = NoTable
    /\ cw_y' = "None"
    /\ cw_update_params' = TRUE
    /\ cw_outcome' = "ok"
    /\ cw_missing' = {}
    /\ cw_out' = NoTable
    /\ cw_calls' = <<>>
    /\ UNCHANGED <<cw_columns, cw_fitted_vars, ce_vars, cw_refitted>>

----------------------------------------------------------------------------
(* Specifications *)

\* no call made yet on the columnwise transformer
CWNew ==
    /\ cw_columns_ = <<>>
    /\ cw_has_columns_ = FALSE
    /\ cw_transformers_ = NoDict
    /\ cw_has_transformers_ = FALSE
    /\ cw_op = "idle"
    /\ cw_arg = NoTable
    /\ cw_X = NoTable
    /\ cw_y = "None"
    /\ cw_update_params = TRUE
    /\ cw_outcome = "ok"
    /\ cw_missing = {}
    /\ cw_out = NoTable
    /\ cw_calls = <<>>

\* no call made yet on the ensemble
CENew ==
    /\ ce_transformers_ = <<>>
    /\ ce_Xcolumns = <<>>
    /\ ce_outcome = "new"
    /\ ce_op = "idle"
    /\ ce_arg = <<>>
    /\ ce_t_outcome = "ok"
    /\ ce_out = <<>>

\* a ColumnEnsembleTransformer after construction
Init ==
    /\ ce_transformers \in CESpecs
    /\ ce_remainder \in Remainders
    /\ ce_feature_names_out = "auto"
    /\ CENew
    /\ cw_columns = [kind |-> "None", elems |-> <<>>]
    /\ CWNew
    /\ cw_refitted = FALSE

Next == \E X \in CETables : Fit(X) /\ UNCHANGED cw_refitted

Spec == Init /\ [][Next]_vars

\* a ColumnEnsembleTransformer with the default feature_names_out="auto" and
\* the remainder dropped (the default) or passed through
InitTransform ==
    /\ Init
    /\ ce_remainder \in {"None", "passthrough"}

\* the ensemble is fitted, refitted and asked to transform
NextTransform ==
    \/ \E X \in CETables : ce_op = "idle" /\ Fit(X) /\ UNCHANGED cw_refitted
    \/ \E X \in CETables : Transform(X)
    \/ Return

SpecTransform == InitTransform /\ [][NextTransform]_vars

\* a ColumnwiseTransformer after construction
InitCW ==
    /\ cw_columns \in CWColumnSpecs
    /\ CWNew
    /\ ce_transformers = SingleSpec
    /\ ce_remainder = "None"
    /\ ce_feature_names_out = "auto"
    /\ CENew
    /\ cw_refitted = FALSE

NextCW ==
    \/ \E X \in CWTables, y \in YVals : CWFit(X, y) /\ UNCHANGED cw_refitted
    \/ \E X \in CWTables, y \in YVals : CWTransform(X, y)
    \/ \E X \in CWTables, y \in YVals : CWInverseTransform(X, y)
    \/ \E X \in CWTables, y \in YVals, update_params \in BOOLEAN :
            CWUpdate(X, y, update_params)
    \/ CWReturn

SpecCW == InitCW /\ [][NextCW]_vars

\* one instance of either class after construction, the columnwise
\* transformer with columns None or a list; the instance of the other class
\* is the default one and is left alone
InitFits ==
    \/ InitTransform
    \/ InitCW /\ cw_columns.kind # "tuple"

CEUntouched ==
    /\ ce_transformers = SingleSpec
    /\ ce_remainder = "None"
    /\ ce_outcome = "new"

CWUntouched ==
    /\ cw_columns.kind = "None"
    /\ ~cw_has_columns_
    /\ cw_op = "idle"

\* fit is called again and again on the instance, on the columnwise
\* transformer with updating calls in between
NextFits ==
    \/ \E X \in CETables :
            CWUntouched /\ Fit(X) /\ UNCHANGED cw_refitted
    \/ \E X \in CWTables, y \in YVals :
            /\ CEUntouched
            /\ CWFit(X, y)
            /\ cw_refitted' =
                    (cw_refitted \/ (CWIsFitted /\ cw_outcome' = "ok"))
    \/ \E X \in CWTables, y \in YVals :
            CEUntouched /\ CWUpdate(X, y, TRUE)
    \/ CEUntouched /\ CWReturn

SpecFits == InitFits /\ [][NextFits]_vars

----------------------------------------------------------------------------
(* Claims about ColumnEnsembleTransformer, checked under Spec *)

\* the columns the explicit (declared) triples of the configuration resolve to
ExplicitColumns ==
    UNION {Range(CoerceToPdIndex(ce_transformers.list[i].index, ce_Xcolumns)) :
            i \in 1..Len(ce_transformers.list)}

\* the triple _check_transformers appends: named "remainder" and holding a
\* clone of the remainder estimator or Id()
IsRemainderTriple(t) == t.name = "remainder" /\ t.est.proto \in {"Id", "R"}

\* C1: a single transformer fitted on a table of n columns leaves one fitted
\* triple per input column, in column order, each a clone of the transformer
\* fitted on that one column and selecting that one column, for every n >= 1.
C1_BroadcastEveryColumn ==
    (ce_transformers.single /\ ce_outcome # "new") =>
        /\ ce_outcome = "ok"
        /\ Len(ce_transformers_) >= Len(ce_Xcolumns)
        /\ \A i \in 1..Len(ce_Xcolumns) :
                /\ ce_transformers_[i].index = <<ce_Xcolumns[i]>>
                /\ ce_transformers_[i].est =
                        [proto |-> ce_transformers.est,
                         fitted_on |-> <<ce_Xcolumns[i]>>]
        /\ \A i \in 1..Len(ce_transformers_) :
                i > Len(ce_Xcolumns) => IsRemainderTriple(ce_transformers_[i])

C3_RemainderIffColumnsRemain ==
    (~ce_transformers.single /\ ce_outcome = "ok") =>
        LET remaining == Range(ce_Xcolumns) \ ExplicitColumns
            n == Len(ce_transformers_)
        IN  IF remaining # {}
            THEN /\ n = Len(ce_transformers.list) + 1
                 /\ IsRemainderTriple(ce_transformers_[n])
                 /\ Range(ce_transformers_[n].index) = remaining
            ELSE n = Len(ce_transformers.list)

\* C4: a remainder triple in the fitted state is the last triple, its columns
\* are the training table's columns minus the union of the columns of the
\* triples before it, it shares no column with any of them, and together
\* they cover every input column.
C4_RemainderTriple ==
    \A i \in 1..Len(ce_transformers_) :
        IsRemainderTriple(ce_transformers_[i]) =>
            LET rem == Range(ce_transformers_[i].index)
                expl == UNION {Range(ce_transformers_[j].index) :
                                j \in 1..Len(ce_transformers_) \ {i}}
            IN  /\ i = Len(ce_transformers_)
                /\ rem = Range(ce_Xcolumns) \ expl
                /\ rem \cap expl = {}
                /\ rem \cup expl = Range(ce_Xcolumns)

\* C4's case: two declared triples on different columns and a remainder
\* triple holding a column
C4_Witness ==
    /\ ce_outcome = "ok"
    /\ Len(ce_transformers_) = 2
    /\ ~IsRemainderTriple(ce_transformers_[1])
    /\ IsRemainderTriple(ce_transformers_[2])
    /\ ce_transformers_[2].index # <<>>
    /\ Len(ce_Xcolumns) = 2

\* C7: after a successful fit the names of the fitted triples are pairwise
\* distinct (a configuration repeating a name is rejected).
C7_NamesUnique ==
    ce_outcome = "ok" =>
        \A i, j \in 1..Len(ce_transformers_) :
            ce_transformers_[i].name = ce_transformers_[j].name => i = j

----------------------------------------------------------------------------
(* Claims about ColumnwiseTransformer, checked under SpecCW *)

\* how often column c is listed in columns_
Occurrences(c) == Cardinality({i \in 1..Len(cw_columns_) : cw_columns_[i] = c})

RECURSIVE IterTransform(_, _, _, _)
\* the child's transform applied k times over
IterTransform(child, data, y, k) ==
    IF k = 0 THEN data
    ELSE IterTransform(child, ChildTransform(child, data, y), y, k - 1)

\* self.columns is None or a list of strings
ColumnsValid ==
    \/ cw_columns.kind = "None"
    \/ /\ cw_columns.kind = "list"
       /\ \A i \in 1..Len(cw_columns.elems) : IsStr(cw_columns.elems[i])

\* C5: fit raises the configuration error, before cloning or fitting any
\* child, exactly when columns is neither None nor a list of strings.
C5_ColumnsValidated ==
    cw_op = "fit" =>
        /\ ~ColumnsValid => (cw_outcome = "config_error" /\ cw_calls = <<>>)
        /\ ColumnsValid => cw_outcome # "config_error"

\* C6: a successful update calls update on the child of every target
\* column exactly once, with that column's new data and the caller's y, and
\* on no other child.
C6_UpdatePassesY ==
    (cw_op = "update" /\ cw_outcome = "ok") =>
        /\ \A c \in Range(cw_columns_) :
                Cardinality({i \in 1..Len(cw_calls) : cw_calls[i].col = c}) = 1
        /\ \A i \in 1..Len(cw_calls) :
                /\ cw_calls[i].method = "update"
                /\ cw_calls[i].col \in Range(cw_columns_)
                /\ cw_calls[i].data = GetCol(cw_arg, cw_calls[i].col)
                /\ cw_calls[i].y = cw_y

\* C8: on a fitted instance, fit, transform, inverse_transform and update
\* given a table lacking target columns raise the missing-columns error
\* naming exactly the lacking target columns, calling no child; given a
\* table holding every target column (and possibly more) they succeed.
C8_MissingColumnsNamed ==
    (cw_has_transformers_ /\ cw_op # "idle") =>
        LET lacking == Range(cw_columns_) \ ColumnSet(cw_arg)
        IN  /\ lacking # {} =>
                    /\ cw_outcome = "missing_columns"
                    /\ cw_missing = lacking
                    /\ cw_calls = <<>>
                    /\ cw_out = NoTable
            /\ lacking = {} => cw_outcome = "ok"

\* C8's case: a transform of a table holding one target column and lacking
\* another, refused with the lacking one named
C8_Witness ==
    /\ cw_has_transformers_
    /\ cw_op = "transform"
    /\ cw_outcome = "missing_columns"
    /\ cw_missing # {}
    /\ cw_missing # Range(cw_columns_)
    /\ Len(cw_arg) = 2

\* C9 as stated: a successful transform returns the input's columns in the
\* input's order, every column outside the target list unchanged and every
\* target column holding its child's transform of the input column, and
\* leaves the caller's table as it was.
C9_TransformOncePerColumn ==
    (cw_op = "transform" /\ cw_outcome = "ok") =>
        /\ Columns(cw_out) = Columns(cw_arg)
        /\ cw_X = cw_arg
        /\ \A i \in 1..Len(cw_arg) :
                cw_out[i].val =
                    IF cw_arg[i].col \in Range(cw_columns_)
                    THEN ChildTransform(
                            DictGet(cw_transformers_, cw_arg[i].col),
                            cw_arg[i].val, cw_y)
                    ELSE cw_arg[i].val

\* C9 amended: as above, but a target column holds its child's transform
\* applied once for every time the column is listed in the target list.
C9_TransformFrame ==
    (cw_op = "transform" /\ cw_outcome = "ok") =>
        /\ Columns(cw_out) = Columns(cw_arg)
        /\ cw_X = cw_arg
        /\ \A i \in 1..Len(cw_arg) :
                cw_out[i].val =
                    IF cw_arg[i].col \in Range(cw_columns_)
                    THEN IterTransform(
                            DictGet(cw_transformers_, cw_arg[i].col),
                            cw_arg[i].val, cw_y,
                            Occurrences(cw_arg[i].col))
                    ELSE cw_arg[i].val

\* C9's case: a transform of a two-column table, one column a target and
\* changed, the other not a target
C9_Witness ==
    /\ cw_op = "transform"
    /\ cw_outcome = "ok"
    /\ Len(cw_arg) = 2
    /\ cw_arg[1].col \notin Range(cw_columns_)
    /\ cw_arg[2].col \in Range(cw_columns_)
    /\ cw_out[2].val # cw_arg[2].val

\* C10: inverse_transform of the table a successful transform returned gives
\* the table that transform was given.
C10_RoundTrip ==
    (cw_op = "transform" /\ cw_outcome = "ok") =>
        LET back == ColumnwiseInverseTransform(cw_out, cw_y)
        IN  back.outcome = "ok" /\ back.out = cw_arg

\* C10's case: columns=None, a transform that changed both columns of a
\* two-column table
C10_Witness ==
    /\ cw_columns.kind = "None"
    /\ cw_op = "transform"
    /\ cw_outcome = "ok"
    /\ Len(cw_arg) = 2
    /\ \A i \in 1..2 : cw_out[i].val # cw_arg[i].val

----------------------------------------------------------------------------
(* Claims about ColumnEnsembleTransformer._transform, checked under        *)
(* SpecTransform                                                           *)

RECURSIVE FittedLabels(_)
\* the (name, label) pairs of the fitted triples from triple i on, in
\* stored order
FittedLabels(i) ==
    IF i > Len(ce_transformers_) THEN <<>>
    ELSE [j \in 1..Len(ce_transformers_[i].index) |->
            <<ce_transformers_[i].name, ce_transformers_[i].index[j]>>]
         \o FittedLabels(i + 1)

----------------------------------------------------------------------------
(* Claims about repeated fit calls, checked under SpecFits and SpecCW      *)

\* the position at which label c first occurs in the sequence cols
FirstPos(cols, c) ==
    CHOOSE i \in 1..Len(cols) : cols[i] = c /\ \A j \in 1..(i - 1) : cols[j] # c

\* the fitted state of the ensemble is that of one fit on the table it was
\* last fitted on
CEFittedOnLast ==
    ce_outcome = "ok" =>
        \E trs \in CheckTransformers(ce_Xcolumns) :
            /\ Len(ce_transformers_) = Len(trs)
            /\ \A i \in 1..Len(trs) :
                /\ ce_transformers_[i].name = trs[i].name
                /\ ce_transformers_[i].index = trs[i].index
                /\ ce_transformers_[i].est =
                        [proto |-> trs[i].est, fitted_on |-> trs[i].index]

\* the fitted state of the columnwise transformer is that of one fit on the
\* table it was last fitted on: columns_ from the configuration or that
\* table, and one child per distinct column, in order of first listing,
\* each fitted on that table's column and nothing else
CWFittedOnLast ==
    (cw_op = "fit" /\ cw_outcome = "ok") =>
        LET cols == IF cw_columns.kind = "None" THEN Columns(cw_arg)
                    ELSE cw_columns.elems
            d == cw_transformers_
        IN  /\ cw_has_columns_ /\ cw_has_transformers_
            /\ cw_columns_ = cols
            /\ Keys(d) = Range(cols)
            /\ \A i, j \in 1..Len(d) :
                    i < j => FirstPos(cols, d[i].key) < FirstPos(cols, d[j].key)
            /\ \A i \in 1..Len(d) :
                    d[i].child = [param |-> GetCol(cw_arg, d[i].key)]

\* C12: after any sequence of fit calls on an instance of either class, a
\* fit that succeeded leaves exactly the fitted state a single fit on its
\* training input produces, with nothing of earlier fits in it, and no fit
\* call changes the configured transformers, remainder or columns.
C12_RefitReplaces ==
    /\ [](CEFittedOnLast /\ CWFittedOnLast)
    /\ [][/\ ce_transformers' = ce_transformers
          /\ ce_remainder' = ce_remainder
          /\ cw_columns' = cw_columns]_vars

\* C12's case: a second successful fit has just returned, on an instance
\* whose children had been fitted before
C12_Witness ==
    /\ cw_refitted
    /\ cw_op = "fit"
    /\ cw_outcome = "ok"
    /\ cw_transformers_ # NoDict

\* C13: whenever transformers_ exists on a ColumnwiseTransformer, also after
\* fit calls that failed on a missing column, its keys are exactly the
\* columns of columns_, so no transform, inverse_transform or update call
\* that passes the column check fails to find a child.
C13_KeysMatchColumns ==
    /\ cw_has_transformers_ =>
            (cw_has_columns_ /\ Keys(cw_transformers_) = Range(cw_columns_))
    /\ cw_outcome # "KeyError"

\* C13's case: a fit call has just failed on a missing column on an
\* instance that an earlier fit had given children
C13_Witness ==
    /\ cw_op = "fit"
    /\ cw_outcome = "missing_columns"
    /\ cw_has_transformers_
    /\ cw_transformers_ # NoDict

====
